---- MODULE Spec2Model ----
(***************************************************************************)
(* The collection pipeline of scripts/collect_yandex_music_data.py:        *)
(* main -> collect_liked_tracks -> process_track -> get_download_url /     *)
(* download_track, and the write of metadata.json.  One run of the script  *)
(* is one behaviour; the remote service, the HTTP transport and the file   *)
(* system are the environment, whose answers and failures are chosen       *)
(* nondeterministically at the step that consults them.                    *)
(***************************************************************************)
EXTENDS Integers, Sequences, FiniteSets, TLC

\* ---------------------------------------------------------------- bounds
MaxTracks == 2          \* longest liked-track list enumerated
MaxChunks == 2          \* longest response body, in chunks of ChunkSize
MaxTail == 2            \* longest run of free characters ending a file name
MaxCands == 3           \* longest list of download candidates

\* ------------------------------------------------------- program constants
MinFileSize == 1024     \* download_track: file_size < 1024
ChunkSize == 8192       \* download_track: iter_content(chunk_size=8192)
ExitFailure == 1        \* sys.exit(1)
ExitSuccess == 0        \* main returns normally
MaxNameLen == 100       \* sanitize_filename: len(filename) > 100

\* ------------------------------------------------------------ environment
TrackIds == {"a", "b"}
NoFile == -1
Running == -1
Absent == "absent"      \* the remote track object has no `available` attribute
RemoteFlags == {"true", "false", Absent}

\* Sizes of the response bodies the transport may deliver.
BodySizes ==
    {0, MinFileSize - 1, MinFileSize}
        \cup {(k - 1) * ChunkSize + MinFileSize + 1 : k \in 2..MaxChunks}

RECURSIVE SeqsOfLen(_, _)
SeqsOfLen(S, n) ==
    IF n = 0 THEN {<<>>}
    ELSE {Append(s, x) : s \in SeqsOfLen(S, n - 1), x \in S}

\* What client.users_likes_tracks() may return: None, or an object whose
\* .tracks is a list of references (possibly empty, possibly with repeats).
LikedAnswers ==
    {[present |-> FALSE, tracks |-> <<>>]}
        \cup {[present |-> TRUE, tracks |-> s] :
                s \in UNION {SeqsOfLen(TrackIds, n) : n \in 0..MaxTracks}}

VARIABLES
    pc,               \* position in main / collect_liked_tracks / callees
    download_audio,   \* main: download_audio
    liked_tracks,     \* collect_liked_tracks: liked_tracks
    i,                \* collect_liked_tracks: loop index (enumerate from 1)
    track,            \* collect_liked_tracks: track (the full remote object)
    track_data,       \* process_track: track_data
    tracks_data,      \* collect_liked_tracks: tracks_data
    downloaded_count, \* collect_liked_tracks: downloaded_count
    download_url,     \* process_track: download_url ("unset" before the call)
    response,         \* download_track: the body's size and the bytes left
    dl_error,         \* download_track: which step raised, "none" if none
    dl_result,        \* download_track: the value returned
    dirs,             \* file system: directories created
    files,            \* file system: size of audio/<id>.mp3, NoFile if none
    manifest,         \* file system: metadata.json
    exit_code,        \* process exit status, Running until the run ends
    reported,         \* the fatal message printed, "none" if none
    calls,            \* history: the calls made, in order
    san_pc,           \* sanitize_filename: position
    san_input,        \* sanitize_filename: the argument as passed
    filename,         \* sanitize_filename: filename
    res_pc,           \* get_download_url: position
    download_info_list, \* get_download_url: download_info_list
    info,             \* get_download_url: index of the loop variable info
    best_quality,     \* get_download_url: best_quality (index, 0 for None)
    resolved,         \* get_download_url: the value returned
    res_error         \* get_download_url: the exception caught, "none" if none

vars == <<pc, download_audio, liked_tracks, i, track, track_data, tracks_data,
          downloaded_count, download_url, response, dl_error, dl_result, dirs, files,
          manifest, exit_code, reported, calls, san_pc, san_input, filename,
          res_pc, download_info_list, info, best_quality, resolved,
          res_error>>

\* The state of main and its callees, and the state of the two functions
\* that are also run on their own.
mainVars == <<pc, download_audio, liked_tracks, i, track, track_data,
              tracks_data, downloaded_count, download_url, response,
              dl_error, dl_result, dirs, files, manifest, exit_code,
              reported, calls>>
sanVars == <<san_pc, san_input, filename>>
resVars == <<res_pc, download_info_list, info, best_quality, resolved,
             res_error>>
fnVars == <<sanVars, resVars>>

NoTrack == [id |-> "", available |-> Absent]
NoRecord == [id |-> "", available |-> FALSE]
NoResponse == [body |-> 0, left |-> 0]
NoManifest == [state |-> "absent", total_tracks |-> 0, tracks |-> <<>>]

\* Nothing has been called yet.
MainIdle(da) ==
    /\ pc = "connect"
    /\ download_audio = da
    /\ liked_tracks = [present |-> FALSE, tracks |-> <<>>]
    /\ i = 0
    /\ track = NoTrack
    /\ track_data = NoRecord
    /\ tracks_data = <<>>
    /\ downloaded_count = 0
    /\ download_url = "unset"
    /\ response = NoResponse
    /\ dl_error = "none"
    /\ dl_result = "pending"
    /\ dirs = {}
    /\ files = [t \in TrackIds |-> NoFile]
    /\ manifest = NoManifest
    /\ exit_code = Running
    /\ reported = "none"
    /\ calls = <<>>

SanIdle ==
    /\ san_pc = "idle"
    /\ san_input = <<>>
    /\ filename = <<>>

ResIdle ==
    /\ res_pc = "idle"
    /\ download_info_list = <<>>
    /\ info = 0
    /\ best_quality = 0
    /\ resolved = <<"pending", 0>>
    /\ res_error = "none"

Init ==
    /\ \E da \in BOOLEAN : MainIdle(da)
    /\ SanIdle
    /\ ResIdle

Min(a, b) == IF a < b THEN a ELSE b

Log(op, k) == Append(calls, <<op, k>>)

\* --------------------------------------------------------------- helpers

\* NoTracksExit with sys.exit(0).
NoTracksExitZero == ExitSuccess

\* The status of each way a run ends: the outer handlers of
\* collect_liked_tracks, main's `if not tracks_data`, an exception nothing
\* catches (the interpreter prints a traceback and exits with 1), and main
\* returning.
SetupErrorExit == ExitFailure
NoTracksExit == ExitFailure
UncaughtExit == ExitFailure
NormalExit == ExitSuccess

\* The errors the outer handlers of collect_liked_tracks tell apart:
\* YandexMusicError, and any other Exception.
SetupErrors == {"api_error", "unexpected_error"}

\* OnSetupError with the handler returning an empty list instead of exiting.
OnSetupErrorReturnEmpty(e) ==
    [pc |-> "main_check", exit_code |-> Running, reported |-> "none"]

\* collect_liked_tracks, the outer handlers: print the error, sys.exit(1).
OnSetupError(e) ==
    [pc |-> "exited", exit_code |-> SetupErrorExit, reported |-> e]

\* A call that raised: the call, then the exception, in the history.
Raised(op, k) == calls \o << <<op, k>>, <<"raise", k>> >>

\* The for statement: the reference after the k-th, or the end of the loop.
LoopNext(k) ==
    IF k < Len(liked_tracks.tracks)
    THEN [pc |-> "fetch", i |-> k + 1]
    ELSE [pc |-> "stats", i |-> k]

\* OnTrackException with `break` in place of `continue`.
OnTrackExceptionBreak(k) == [pc |-> "stats", i |-> k]

\* The inner handler of the loop: `continue`.
OnTrackException(k) == LoopNext(k)

\* `if not liked_tracks or not liked_tracks.tracks`
NothingLiked(l) == ~l.present \/ Len(l.tracks) = 0

\* NoData with the check left out.
NoDataUnchecked(td) == FALSE

\* `if not tracks_data` in main
NoData(td) == Len(td) = 0

\* AppendRecord with tracks_data.insert(0, track_data).
AppendRecordFront(td, r) == <<r>> \o td

\* tracks_data.append(track_data)
AppendRecord(td, r) == Append(td, r)

\* `track.available if hasattr(track, 'available') else True`
RemoteAvailable(flag) == IF flag = Absent THEN TRUE ELSE flag = "true"

\* `if download_audio and track_data["available"]`
ShouldDownload(da, avail) == da /\ avail

\* Downgrade with the assignment left out.
DowngradeForgotten(r) == r

\* `track_data["available"] = False`
Downgrade(r) == [r EXCEPT !.available = FALSE]

\* TooSmall with `<=` in place of `<`.
TooSmallInclusive(size) == size <= MinFileSize

\* `if file_size < 1024`
TooSmall(size) == size < MinFileSize

\* ManifestOf with the count of enumerated references (the local
\* total_tracks of collect_liked_tracks) in place of len(tracks_data).
ManifestOfEnumerated(td) ==
    [state |-> "complete", total_tracks |-> Len(liked_tracks.tracks),
     tracks |-> td]

\* The document main builds for metadata.json.
ManifestOf(td) ==
    [state |-> "complete", total_tracks |-> Len(td), tracks |-> td]

loopVars == <<i, track, track_data, tracks_data, downloaded_count>>
dlVars == <<download_url, response, dl_error, dl_result>>
fsVars == <<dirs, files, manifest>>
endVars == <<exit_code, reported>>

\* ------------------------------------------------- collect_liked_tracks

\* client = Client(token).init()
Connect ==
    /\ pc = "connect"
    /\ \/ /\ calls' = Log("init", 0)
          /\ pc' = "enumerate"
          /\ UNCHANGED endVars
       \/ \E e \in SetupErrors :
             /\ calls' = Raised("init", 0)
             /\ pc' = OnSetupError(e).pc
             /\ exit_code' = OnSetupError(e).exit_code
             /\ reported' = OnSetupError(e).reported
    /\ UNCHANGED <<download_audio, liked_tracks, loopVars, dlVars, fsVars>>
    /\ UNCHANGED fnVars

\* liked_tracks = client.users_likes_tracks(), and the empty-list return.
Enumerate ==
    /\ pc = "enumerate"
    /\ \/ \E l \in LikedAnswers :
             /\ calls' = Log("users_likes_tracks", 0)
             /\ liked_tracks' = l
             /\ pc' = IF NothingLiked(l) THEN "main_check" ELSE "layout"
             /\ UNCHANGED endVars
       \/ \E e \in SetupErrors :
             /\ calls' = Raised("users_likes_tracks", 0)
             /\ pc' = OnSetupError(e).pc
             /\ exit_code' = OnSetupError(e).exit_code
             /\ reported' = OnSetupError(e).reported
             /\ UNCHANGED liked_tracks
    /\ UNCHANGED <<download_audio, loopVars, dlVars, fsVars>>
    /\ UNCHANGED fnVars

\* LayoutDirs with the audio directory left to the download mode to create.
LayoutDirsRootOnly == {"root"}

\* The directories create_output_structure makes: output_path and
\* output_path / "audio".  It takes no download flag.
LayoutDirs == {"root", "audio"}

\* create_output_structure(output_dir): both mkdir calls, whatever the mode.
\* A mkdir that raises reaches the outer `except Exception`.
CreateOutputStructure ==
    /\ pc = "layout"
    /\ \/ /\ calls' = Log("create_output_structure", 0)
          /\ dirs' = dirs \cup LayoutDirs
          /\ pc' = LoopNext(0).pc
          /\ i' = LoopNext(0).i
          /\ UNCHANGED endVars
       \/ /\ calls' = Raised("create_output_structure", 0)
          /\ pc' = OnSetupError("unexpected_error").pc
          /\ exit_code' = OnSetupError("unexpected_error").exit_code
          /\ reported' = OnSetupError("unexpected_error").reported
          /\ UNCHANGED <<dirs, i>>
    /\ UNCHANGED <<download_audio, liked_tracks, track, track_data,
                   tracks_data, downloaded_count, dlVars, files, manifest>>
    /\ UNCHANGED fnVars

\* track = client.tracks([track_short.id])[0] and the progress line; an
\* exception here reaches the inner handler, which skips the reference.
FetchTrack ==
    /\ pc = "fetch"
    /\ \/ \E flag \in RemoteFlags :
             /\ calls' = Log("tracks", i)
             /\ track' = [id |-> liked_tracks.tracks[i], available |-> flag]
             /\ pc' = "process"
             /\ UNCHANGED i
       \/ /\ calls' = Raised("tracks", i)
          /\ pc' = OnTrackException(i).pc
          /\ i' = OnTrackException(i).i
          /\ UNCHANGED track
    /\ UNCHANGED <<download_audio, liked_tracks, track_data, tracks_data,
                   downloaded_count, dlVars, fsVars, endVars>>
    /\ UNCHANGED fnVars

\* ------------------------------------------------------- process_track

\* The track_data literal.  Any exception while building it is caught by
\* process_track, which returns None; the loop then appends nothing.
ProcessTrack ==
    /\ pc = "process"
    /\ \/ LET avail == RemoteAvailable(track.available) IN
             /\ calls' = Log("process_track", i)
             /\ track_data' = [id |-> track.id, available |-> avail]
             /\ pc' = IF ShouldDownload(download_audio, avail)
                      THEN "resolve" ELSE "append"
       \/ /\ calls' = Raised("process_track", i)
          /\ track_data' = NoRecord
          /\ pc' = "sleep"
    /\ UNCHANGED <<download_audio, liked_tracks, i, track, tracks_data,
                   downloaded_count, dlVars, fsVars, endVars>>
    /\ UNCHANGED fnVars

\* download_url = get_download_url(client, track): a link, or None (no mp3
\* candidate, or an error, which get_download_url catches).
GetDownloadUrl ==
    /\ pc = "resolve"
    /\ calls' = Log("get_download_url", i)
    /\ \/ /\ download_url' = "url"
          /\ pc' = "dl_request"
          /\ UNCHANGED track_data
       \/ /\ download_url' = "none"
          /\ track_data' = Downgrade(track_data)
          /\ pc' = "append"
    /\ UNCHANGED <<download_audio, liked_tracks, i, track, tracks_data,
                   downloaded_count, response, dl_error, dl_result, fsVars,
                   endVars>>
    /\ UNCHANGED fnVars

\* ------------------------------------------------------ download_track

\* os.makedirs, requests.get(url, stream=True, timeout=30) and
\* raise_for_status().  Either handler returns False.
DownloadRequest ==
    /\ pc = "dl_request"
    /\ calls' = Log("download_track", i)
    /\ \/ \E b \in BodySizes :
             /\ response' = [body |-> b, left |-> b]
             /\ pc' = "dl_open"
             /\ UNCHANGED <<dl_error, dl_result>>
       \/ \E e \in {"request", "os"} :
             /\ dl_error' = e
             /\ dl_result' = "false"
             /\ pc' = "dl_return"
             /\ UNCHANGED response
    /\ UNCHANGED <<download_audio, liked_tracks, loopVars, download_url,
                   fsVars, endVars>>
    /\ UNCHANGED fnVars

\* open(output_path, 'wb'): creates the file, or truncates the one there.
DownloadOpen ==
    /\ pc = "dl_open"
    /\ \/ /\ files' = [files EXCEPT ![track_data.id] = 0]
          /\ pc' = "dl_stream"
          /\ UNCHANGED <<dl_error, dl_result>>
       \/ /\ dl_error' = "os"
          /\ dl_result' = "false"
          /\ pc' = "dl_return"
          /\ UNCHANGED files
    /\ UNCHANGED <<download_audio, liked_tracks, loopVars, download_url,
                   response, dirs, manifest, endVars, calls>>
    /\ UNCHANGED fnVars

\* One round of `for chunk in response.iter_content(chunk_size=8192)`:
\* f.write(chunk), or the transport raising while the body is read; the
\* `with` closes the file and the handler returns False.
DownloadChunk ==
    /\ pc = "dl_stream"
    /\ response.left > 0
    /\ \/ LET n == Min(ChunkSize, response.left) IN
             /\ files' = [files EXCEPT ![track_data.id] = @ + n]
             /\ response' = [response EXCEPT !.left = @ - n]
             /\ UNCHANGED <<pc, dl_error, dl_result>>
       \/ /\ dl_error' = "stream"
          /\ dl_result' = "false"
          /\ pc' = "dl_return"
          /\ UNCHANGED <<files, response>>
    /\ UNCHANGED <<download_audio, liked_tracks, loopVars, download_url,
                   dirs, manifest, endVars, calls>>
    /\ UNCHANGED fnVars

\* After the loop: os.path.getsize, and os.remove of a file under 1 KB.
DownloadValidate ==
    /\ pc = "dl_stream"
    /\ response.left = 0
    /\ IF TooSmall(files[track_data.id])
       THEN /\ files' = [files EXCEPT ![track_data.id] = NoFile]
            /\ dl_result' = "false"
       ELSE /\ dl_result' = "true"
            /\ UNCHANGED files
    /\ pc' = "dl_return"
    /\ UNCHANGED <<download_audio, liked_tracks, loopVars, download_url,
                   response, dl_error, dirs, manifest, endVars, calls>>
    /\ UNCHANGED fnVars

\* Back in process_track: `if download_track(...)`, else available = False.
DownloadReturn ==
    /\ pc = "dl_return"
    /\ track_data' = IF dl_result = "true" THEN track_data
                     ELSE Downgrade(track_data)
    /\ pc' = "append"
    /\ UNCHANGED <<download_audio, liked_tracks, i, track, tracks_data,
                   downloaded_count, dlVars, fsVars, endVars, calls>>
    /\ UNCHANGED fnVars

\* --------------------------------------- collect_liked_tracks, continued

\* `if track_data:` tracks_data.append(track_data), and the count.
AppendTrack ==
    /\ pc = "append"
    /\ tracks_data' = AppendRecord(tracks_data, track_data)
    /\ downloaded_count' =
           IF download_audio /\ track_data.available
           THEN downloaded_count + 1 ELSE downloaded_count
    /\ pc' = "sleep"
    /\ UNCHANGED <<download_audio, liked_tracks, i, track, track_data,
                   dlVars, fsVars, endVars, calls>>
    /\ UNCHANGED fnVars

\* time.sleep(0.5), the last statement of the try body; the locals of the
\* iteration are dead after it.
Sleep ==
    /\ pc = "sleep"
    /\ calls' = Log("sleep", i)
    /\ pc' = LoopNext(i).pc
    /\ i' = LoopNext(i).i
    /\ track' = NoTrack
    /\ track_data' = NoRecord
    /\ download_url' = "unset"
    /\ response' = NoResponse
    /\ dl_error' = "none"
    /\ dl_result' = "pending"
    /\ UNCHANGED <<download_audio, liked_tracks, tracks_data,
                   downloaded_count, fsVars, endVars>>
    /\ UNCHANGED fnVars

\* The statistics lines and `return tracks_data`.
ReturnTracks ==
    /\ pc = "stats"
    /\ pc' = "main_check"
    /\ UNCHANGED <<download_audio, liked_tracks, loopVars, dlVars, fsVars,
                   endVars, calls>>
    /\ UNCHANGED fnVars

\* ----------------------------------------------------------------- main

\* `if not tracks_data: sys.exit(1)`
MainCheck ==
    /\ pc = "main_check"
    /\ IF NoData(tracks_data)
       THEN /\ pc' = "exited"
            /\ exit_code' = NoTracksExit
            /\ reported' = "no_tracks"
       ELSE /\ pc' = "write"
            /\ UNCHANGED endVars
    /\ UNCHANGED <<download_audio, liked_tracks, loopVars, dlVars, fsVars,
                   calls>>
    /\ UNCHANGED fnVars

\* open(metadata_file, 'w') and json.dump(metadata, f), outside any try: the
\* open may raise (nothing written), json.dump may raise part-way (the
\* metadata block and some of the tracks are in the file), or both succeed
\* and main runs to its end.  An uncaught exception ends the process with a
\* traceback and status 1.
WriteManifest ==
    /\ pc = "write"
    /\ pc' = "exited"
    /\ \/ /\ calls' = Log("write_manifest", 0)
          /\ manifest' = ManifestOf(tracks_data)
          /\ exit_code' = NormalExit
          /\ UNCHANGED reported
       \/ /\ calls' = Raised("write_manifest", 0)
          /\ UNCHANGED manifest
          /\ exit_code' = UncaughtExit
          /\ reported' = "traceback"
       \/ \E k \in 0..(Len(tracks_data) - 1) :
             /\ calls' = Raised("write_manifest", 0)
             /\ manifest' = [ManifestOf(tracks_data) EXCEPT
                                !.state = "partial",
                                !.tracks = SubSeq(tracks_data, 1, k)]
             /\ exit_code' = UncaughtExit
             /\ reported' = "traceback"
    /\ UNCHANGED <<download_audio, liked_tracks, loopVars, dlVars, dirs,
                   files>>
    /\ UNCHANGED fnVars

Next ==
    \/ Connect
    \/ Enumerate
    \/ CreateOutputStructure
    \/ FetchTrack
    \/ ProcessTrack
    \/ GetDownloadUrl
    \/ DownloadRequest
    \/ DownloadOpen
    \/ DownloadChunk
    \/ DownloadValidate
    \/ DownloadReturn
    \/ AppendTrack
    \/ Sleep
    \/ ReturnTracks
    \/ MainCheck
    \/ WriteManifest

Spec == Init /\ [][Next]_vars

\* ------------------------------------------------------------- history

Called(op, k) == \E n \in 1..Len(calls) : calls[n] = <<op, k>>

Failed(op, k) ==
    \E n \in 1..(Len(calls) - 1) :
        calls[n] = <<op, k>> /\ calls[n + 1] = <<"raise", k>>

Succeeded(op, k) == Called(op, k) /\ ~Failed(op, k)

CallsOf(op) == SelectSeq(calls, LAMBDA c : c[1] = op)

Refs == 1..Len(liked_tracks.tracks)

\* The references whose metadata fetch and enrichment both succeeded.
Kept == {j \in Refs : Succeeded("tracks", j) /\ Succeeded("process_track", j)}

\* The identifiers of the kept references among the first k, in list order.
RECURSIVE KeptIds(_)
KeptIds(k) ==
    IF k = 0 THEN <<>>
    ELSE IF k \in Kept
         THEN Append(KeptIds(k - 1), liked_tracks.tracks[k])
         ELSE KeptIds(k - 1)

Ids(td) == [n \in 1..Len(td) |-> td[n].id]

\* The for loop ran and has ended.
LoopOver ==
    /\ pc \in {"stats", "main_check", "write", "exited"}
    /\ Succeeded("create_output_structure", 0)

\* ---------------------------------------------------------------- claims

\* C1: the manifest a completed run writes has total_tracks equal to the
\* number of entries of its tracks sequence.
C1_TotalTracksIsLength ==
    manifest.state = "complete" =>
        manifest.total_tracks = Len(manifest.tracks)

\* A written manifest of one record from a list of two references.
C1_Witness ==
    /\ pc = "exited"
    /\ manifest.state = "complete"
    /\ Len(manifest.tracks) = 1
    /\ manifest.total_tracks = 1
    /\ Len(liked_tracks.tracks) = 2

\* C2: a reference whose metadata fetch throws, or whose enrichment returns
\* None, stops nothing: once the loop is over every reference of the list
\* was fetched, every fetched one was enriched, and a written manifest holds
\* one record for each reference whose fetch and enrichment succeeded.
C2_FailureIsIsolated ==
    LoopOver =>
        /\ \A j \in Refs : Called("tracks", j)
        /\ \A j \in Refs :
              Succeeded("tracks", j) => Called("process_track", j)
        /\ manifest.state = "complete" =>
              /\ Len(manifest.tracks) = Cardinality(Kept)
              /\ \A j \in Kept :
                    \E n \in 1..Len(manifest.tracks) :
                        manifest.tracks[n].id = liked_tracks.tracks[j]

\* The first fetch threw, and the second reference is in the written
\* manifest.
C2_Witness ==
    /\ pc = "exited"
    /\ liked_tracks.tracks = <<"a", "b">>
    /\ Failed("tracks", 1)
    /\ Kept = {2}
    /\ manifest.state = "complete"
    /\ Ids(manifest.tracks) = <<"b">>

\* C3: references are fetched once each, in list order, and between
\* iterations the accumulated sequence holds exactly one record for each
\* reference so far whose fetch and enrichment succeeded, in list order.
C3_OrderPreserved ==
    /\ LET fetches == CallsOf("tracks") IN
          \A n \in 1..Len(fetches) : fetches[n][2] = n
    /\ LET enrichments == CallsOf("process_track") IN
          \A n \in 1..Len(enrichments) :
              \A m \in 1..(n - 1) : enrichments[m][2] < enrichments[n][2]
    /\ pc = "fetch" => Ids(tracks_data) = KeptIds(i - 1)
    /\ LoopOver => Ids(tracks_data) = KeptIds(Len(liked_tracks.tracks))

\* Two different references, both kept, in the order of the list.
C3_Witness ==
    /\ pc = "stats"
    /\ liked_tracks.tracks = <<"b", "a">>
    /\ Kept = {1, 2}
    /\ Ids(tracks_data) = <<"b", "a">>

\* C4: when process_track returns a record, a download was attempted exactly
\* if download_audio is set and the remote flag (true when absent) says
\* available; a resolution without URL or a failed fetch leaves available
\* false, no attempt leaves the remote value; the record is appended either
\* way.
C4_AvailableReflectsDownload ==
    LET remote == RemoteAvailable(track.available)
        attempted == Called("get_download_url", i)
        fetched == Called("download_track", i)
    IN  /\ pc \in {"append", "sleep"} /\ track_data # NoRecord =>
              /\ attempted <=> (download_audio /\ remote)
              /\ fetched <=> (attempted /\ download_url = "url")
              /\ attempted /\ (download_url = "none" \/ dl_result = "false")
                    => track_data.available = FALSE
              /\ attempted /\ dl_result = "true"
                    => track_data.available = TRUE
              /\ ~attempted =>
                    /\ track_data.available = remote
                    /\ download_url = "unset"
                    /\ dl_result = "pending"
        /\ pc = "sleep" /\ track_data # NoRecord =>
              /\ Len(tracks_data) > 0
              /\ tracks_data[Len(tracks_data)] = track_data

\* A record the remote side calls available, downgraded after a failed
\* fetch, and appended.
C4_Witness ==
    /\ pc = "sleep"
    /\ track.available = "true"
    /\ dl_result = "false"
    /\ track_data.available = FALSE
    /\ Len(tracks_data) > 0
    /\ tracks_data[Len(tracks_data)] = track_data

\* C5 as stated: whenever download_track returns False, no file is left at
\* the destination path.
C5_NoFileAfterFailure ==
    pc = "dl_return" /\ dl_result = "false" =>
        files[track_data.id] = NoFile

\* C6: a body delivered completely, with no error on the way, of at least
\* 1024 bytes leaves one file of that size and returns True; a smaller one
\* leaves no file and returns False.
C6_SizeBoundary ==
    pc = "dl_return" /\ dl_error = "none" =>
        IF response.body >= 1024
        THEN dl_result = "true" /\ files[track_data.id] = response.body
        ELSE dl_result = "false" /\ files[track_data.id] = NoFile

\* A body of exactly 1024 bytes, kept.
C6_Witness ==
    /\ pc = "dl_return"
    /\ dl_error = "none"
    /\ response.body = 1024
    /\ dl_result = "true"
    /\ files[track_data.id] = 1024

\* C7 as stated: a run ends either with a complete manifest, or with a
\* reported fatal error and no manifest file.
C7_ManifestAllOrNothing ==
    pc = "exited" =>
        \/ manifest.state = "complete" /\ reported = "none"
        \/ manifest.state = "absent" /\ reported # "none"

SetupFailed == Failed("init", 0) \/ Failed("users_likes_tracks", 0)

\* C8: when the session cannot be established or the enumeration fails, the
\* run is over at once with a reported error: no reference was fetched or
\* enriched, nothing was downloaded and no manifest was written.
C8_SetupFailureAborts ==
    SetupFailed =>
        /\ pc = "exited"
        /\ exit_code = 1
        /\ reported \in SetupErrors
        /\ \A c \in 1..Len(calls) :
              calls[c][1] \in {"init", "users_likes_tracks", "raise"}
        /\ tracks_data = <<>>
        /\ \A t \in TrackIds : files[t] = NoFile
        /\ manifest = NoManifest

\* The session was established and the enumeration raised.
C8_Witness ==
    /\ Succeeded("init", 0)
    /\ Failed("users_likes_tracks", 0)
    /\ pc = "exited"

\* C9: when the enumeration returns None or an empty list, the orchestrator
\* returns an empty sequence and main reports that no track was collected:
\* no reference is processed and the manifest is never written.
C9_EmptyListNoManifest ==
    Succeeded("users_likes_tracks", 0) /\ NothingLiked(liked_tracks) =>
        /\ pc \in {"main_check", "exited"}
        /\ tracks_data = <<>>
        /\ \A c \in 1..Len(calls) :
              calls[c][1] \in {"init", "users_likes_tracks"}
        /\ manifest = NoManifest
        /\ pc = "exited" => reported = "no_tracks" /\ exit_code # 0

\* The list object came back with an empty .tracks and the run has ended.
C9_Witness ==
    /\ Succeeded("users_likes_tracks", 0)
    /\ liked_tracks = [present |-> TRUE, tracks |-> <<>>]
    /\ pc = "exited"
    /\ reported = "no_tracks"

\* The three outcomes of a run that has ended.
Outcome ==
    IF SetupFailed THEN "fatal_setup"
    ELSE IF tracks_data = <<>> THEN "zero_tracks"
    ELSE "collected"

\* C10 as stated: the exit status of a run with one outcome is never the
\* status the script gives to either of the other two outcomes.
C10_ThreeExitSignals ==
    pc = "exited" =>
        /\ Outcome = "fatal_setup" =>
              exit_code \notin {NoTracksExit, NormalExit}
        /\ Outcome = "zero_tracks" =>
              exit_code \notin {SetupErrorExit, NormalExit}
        /\ Outcome = "collected" =>
              exit_code \notin {SetupErrorExit, NoTracksExit}

\* C10 as amended: status 0 is given only to a run that collected at least
\* one track; a run that collected none and a run that failed at setup both
\* end with status 1.
C10_TwoExitSignals ==
    pc = "exited" =>
        /\ exit_code = 0 => Outcome = "collected"
        /\ Outcome \in {"fatal_setup", "zero_tracks"} => exit_code = 1

\* Every reference of a non-empty list was skipped: zero tracks, status 1.
C10_Witness ==
    /\ pc = "exited"
    /\ Len(liked_tracks.tracks) = 2
    /\ Outcome = "zero_tracks"
    /\ exit_code = 1

C14_DelayBetweenFetches ==
    \A n \in 1..Len(calls) : \A m \in 1..(n - 1) :
        calls[m][1] = "tracks" /\ calls[n][1] = "tracks" =>
            \E k \in (m + 1)..(n - 1) : calls[k][1] = "sleep"

\* C15 as stated: at the end of a run that downloads audio, every record
\* marked available has its file of at least 1024 bytes on disk.
C15_AvailableHasFile ==
    pc = "exited" /\ download_audio =>
        \A n \in 1..Len(tracks_data) :
            tracks_data[n].available => files[tracks_data[n].id] >= 1024

\* ---------------------------------------------------- sanitize_filename

\* invalid_chars = '<>:"/\\|?*'
InvalidChars == {"<", ">", ":", "\"", "/", "\\", "|", "?", "*"}

\* The argument of filename.strip('. ')
StripChars == {".", " "}

\* A string is the sequence of its characters.
Alphabet == InvalidChars \cup StripChars \cup {"a", "_"}

Pad(n) == [k \in 1..n |-> "a"]

\* The name test_script.py passes: "Test<>Song|Name?.mp3"
TestName ==
    <<"T", "e", "s", "t", "<", ">", "S", "o", "n", "g", "|", "N", "a", "m",
      "e", "?", ".", "m", "p", "3">>

\* The names passed: one free character or none, a run of plain characters
\* that is empty or brings the length next to the limit, and free characters.
NameInputs ==
    {TestName} \cup
    {h \o Pad(p) \o t :
        h \in SeqsOfLen(Alphabet, 0) \cup SeqsOfLen(Alphabet, 1),
        p \in {0, MaxNameLen - 2, MaxNameLen - 1, MaxNameLen},
        t \in UNION {SeqsOfLen(Alphabet, n) : n \in 0..MaxTail}}

\* for char in invalid_chars: filename = filename.replace(char, '_')
ReplaceInvalid(s) ==
    [n \in 1..Len(s) |-> IF s[n] \in InvalidChars THEN "_" ELSE s[n]]

RECURSIVE LStrip(_)
LStrip(s) ==
    IF s # <<>> /\ Head(s) \in StripChars THEN LStrip(Tail(s)) ELSE s

RECURSIVE RStrip(_)
RStrip(s) ==
    IF s # <<>> /\ s[Len(s)] \in StripChars
    THEN RStrip(SubSeq(s, 1, Len(s) - 1)) ELSE s

\* filename.strip('. ')
Strip(s) == RStrip(LStrip(s))

\* if len(filename) > 100: filename = filename[:100]
Truncate(s) == IF Len(s) > MaxNameLen THEN SubSeq(s, 1, MaxNameLen) ELSE s

SanitizeCall ==
    /\ san_pc = "idle"
    /\ \E s \in NameInputs :
          /\ san_input' = s
          /\ filename' = s
    /\ san_pc' = "replace"
    /\ UNCHANGED <<mainVars, resVars>>

SanitizeReplace ==
    /\ san_pc = "replace"
    /\ filename' = ReplaceInvalid(filename)
    /\ san_pc' = "strip"
    /\ UNCHANGED <<san_input, mainVars, resVars>>

SanitizeStrip ==
    /\ san_pc = "strip"
    /\ filename' = Strip(filename)
    /\ san_pc' = "truncate"
    /\ UNCHANGED <<san_input, mainVars, resVars>>

SanitizeTruncate ==
    /\ san_pc = "truncate"
    /\ filename' = Truncate(filename)
    /\ san_pc' = "done"
    /\ UNCHANGED <<san_input, mainVars, resVars>>

InitSanitize == MainIdle(FALSE) /\ SanIdle /\ ResIdle

NextSanitize ==
    \/ SanitizeCall
    \/ SanitizeReplace
    \/ SanitizeStrip
    \/ SanitizeTruncate

SpecSanitize == InitSanitize /\ [][NextSanitize]_vars

\* C11 as stated: sanitize_filename returns a string with none of the
\* forbidden characters, at most 100 characters long, with no '.' or space
\* at either end, which is a stretch of the argument with one '_' in place of
\* each forbidden character.
C11_SanitizedName ==
    san_pc = "done" =>
        /\ \A n \in 1..Len(filename) : filename[n] \notin InvalidChars
        /\ Len(filename) <= 100
        /\ filename # <<>> =>
              /\ filename[1] \notin {".", " "}
              /\ filename[Len(filename)] \notin {".", " "}
        /\ \E d \in 0..(Len(san_input) - Len(filename)) :
              \A n \in 1..Len(filename) :
                  filename[n] = IF san_input[n + d] \in InvalidChars
                                THEN "_" ELSE san_input[n + d]

\* ----------------------------------------------------- get_download_url

Codecs == {"mp3", "aac"}
Bitrates == {128, 256, 320}

\* return None
None == <<"None", 0>>

\* What track.get_download_info(get_direct_links=True) may return: a list of
\* candidates, each with its own direct link.
CandidateLists ==
    UNION {
        {[n \in 1..len |->
              [codec |-> c[n][1], bitrate_in_kbps |-> c[n][2],
               direct_link |-> <<"link", n>>]] :
            c \in SeqsOfLen(Codecs \X Bitrates, len)} :
        len \in 0..MaxCands}

\* `if info.codec == 'mp3'`
IsMp3(cand) == cand.codec = "mp3"

\* Better with `>=` in place of `>`.
BetterOrEqual(cand, best) ==
    best = 0 \/
    cand.bitrate_in_kbps >= download_info_list[best].bitrate_in_kbps

\* `best_quality is None or
\*  info.bitrate_in_kbps > best_quality.bitrate_in_kbps`
Better(cand, best) ==
    best = 0 \/
    cand.bitrate_in_kbps > download_info_list[best].bitrate_in_kbps

\* download_info_list = track.get_download_info(get_direct_links=True); a
\* YandexMusicError or any other exception is caught and None returned.
ResolveCall ==
    /\ res_pc = "idle"
    /\ \/ \E l \in CandidateLists :
             /\ download_info_list' = l
             /\ res_pc' = "loop"
             /\ UNCHANGED <<resolved, res_error>>
       \/ \E e \in {"YandexMusicError", "Exception"} :
             /\ res_error' = e
             /\ resolved' = None
             /\ res_pc' = "done"
             /\ UNCHANGED download_info_list
    /\ UNCHANGED <<info, best_quality, mainVars, sanVars>>

\* One round of `for info in download_info_list`.
ResolveStep ==
    /\ res_pc = "loop"
    /\ info < Len(download_info_list)
    /\ info' = info + 1
    /\ best_quality' =
           IF /\ IsMp3(download_info_list[info + 1])
              /\ Better(download_info_list[info + 1], best_quality)
           THEN info + 1 ELSE best_quality
    /\ UNCHANGED <<res_pc, download_info_list, resolved, res_error,
                   mainVars, sanVars>>

\* `if best_quality: return best_quality.direct_link`, else return None.
ResolveReturn ==
    /\ res_pc = "loop"
    /\ info = Len(download_info_list)
    /\ resolved' = IF best_quality # 0
                   THEN download_info_list[best_quality].direct_link
                   ELSE None
    /\ res_pc' = "done"
    /\ UNCHANGED <<download_info_list, info, best_quality, res_error,
                   mainVars, sanVars>>

InitResolve == MainIdle(TRUE) /\ SanIdle /\ ResIdle

NextResolve ==
    \/ ResolveCall
    \/ ResolveStep
    \/ ResolveReturn

SpecResolve == InitResolve /\ [][NextResolve]_vars

\* C12: get_download_url returns the link of the mp3 candidate with the
\* highest bitrate, the earliest of them when several share it, whatever
\* the other codecs offer; None when no candidate is mp3, and None when the
\* remote call raised.
C12_BestMp3 ==
    res_pc = "done" =>
        LET l == download_info_list
            mp3 == {n \in 1..Len(l) : l[n].codec = "mp3"}
        IN  IF res_error # "none" \/ mp3 = {}
            THEN resolved = <<"None", 0>>
            ELSE \E n \in mp3 :
                    /\ \A m \in mp3 :
                          l[m].bitrate_in_kbps <= l[n].bitrate_in_kbps
                    /\ \A m \in mp3 :
                          m < n => l[m].bitrate_in_kbps < l[n].bitrate_in_kbps
                    /\ resolved = l[n].direct_link

\* The candidates {mp3, 320}, {mp3, 128}, {aac, 256}: the first is chosen.
C12_Witness ==
    /\ res_pc = "done"
    /\ Len(download_info_list) = 3
    /\ [n \in 1..3 |-> <<download_info_list[n].codec,
                         download_info_list[n].bitrate_in_kbps>>]
          = << <<"mp3", 320>>, <<"mp3", 128>>, <<"aac", 256>> >>
    /\ resolved = download_info_list[1].direct_link
====
